---- MODULE Spec2Model ----
(***************************************************************************)
(* State-machine model of run-gui.py: the ProgressUpdater instrumentor,    *)
(* the install / unwrap of the four pipeline stage slots and the "Run"     *)
(* handler of the PySimpleGUI event loop.                                  *)
(*                                                                         *)
(* Python values that live in the stage slots are modelled as records:     *)
(*   [kind |-> "function", name]            a plain function               *)
(*   [kind |-> "ProgressUpdater", func,...] a ProgressUpdater instance     *)
(*   [kind |-> "partial", func, args]       functools.partial(pu.__call__, *)
(*                                          a) as built by __get__         *)
(* Every instrumentor is referenced from exactly one place (the slot, or   *)
(* the func / partial that wraps it), so nesting the records is faithful   *)
(* to the object graph.                                                    *)
(***************************************************************************)
EXTENDS Integers, Sequences, FiniteSets, TLC

VARIABLES
    pc,               \* position of the event loop / run handler
    event,            \* event returned by the last window.read()
    window,           \* state of the layout's elements, by key
    diffeo,           \* attributes of the diffeomorphic module's classes
    current_progress, \* ProgressUpdater.current_progress (class attribute)
    num_files,        \* local num_files of the run handler
    calls,            \* pipeline: stage invocations made in the current run
    executing,        \* pipeline: the call the original stage function received
    exc,              \* exception in flight / that ended the process
    key_miss,         \* what window[key] does for a key the layout lacks
    runs,             \* accepted runs so far
    pre_install,      \* history: slot contents read by the last install
    teardowns,        \* history: executions of the finally block in this run
    probe,            \* a single ProgressUpdater under test (IncSpec only)
    invocation,       \* pipeline: the stage call in progress and what it pushed
    drawn             \* the window as last painted (window.refresh / read)

vars == <<pc, event, window, diffeo, current_progress, num_files, calls,
          executing, exc, key_miss, runs, pre_install, teardowns, probe,
          invocation, drawn>>

----------------------------------------------------------------------------
(* Bounds of the model.  A session is followed through MaxRuns accepted
   runs: after the teardown of the last one only the closing of the window
   is followed. *)

MaxRuns == 2
MaxFiles == 2
MaxProbeFiles == 12

(* Program constants *)

PBarMax == 100
InitWeight == 5
GetdiffeoWeight == 25
InterpolateWeight == 65
SaveWeight == 5

----------------------------------------------------------------------------
(* Names *)

INIT == "DiffeoImage.__init__"
GETDIFFEO == "DiffeoImage._getdiffeo"
INTERPOLATE == "DiffeoImage._interpolate_image"
SAVE == "DiffeoImageDir.save"
DIRINIT == "DiffeoImageDir.__init__"

Slots == {INIT, GETDIFFEO, INTERPOLATE, SAVE}

Attributes == Slots \cup {DIRINIT}

stage_progress_of == [s \in Slots |->
    CASE s = INIT -> InitWeight
      [] s = GETDIFFEO -> GetdiffeoWeight
      [] s = INTERPOLATE -> InterpolateWeight
      [] s = SAVE -> SaveWeight]

label_of == [s \in Slots |->
    CASE s = INIT -> "Initializing image..."
      [] s = GETDIFFEO -> "Generating diffeomorphic flow field..."
      [] s = INTERPOLATE -> "Interpolating image (this may take a while; do not close window!)..."
      [] s = SAVE -> "Saving files (do not close window!)..."]

runs_each_file_of == [s \in Slots |-> s # SAVE]

ERR_BOTH == "ERROR: One or more files/folders must be supplied as an input; exactly one folder must be supplied as an output"
ERR_INPUT == "ERROR: One or more files/folders must be supplied as an input"
ERR_OUTPUT == "ERROR: Exactly one folder must be supplied as an output"
ERR_NOT_FOUND == "ERROR: One or more files not found"
COMPLETE == "Diffeomorphing complete!"

LayoutKeys == {"-INPUTS-", "-OUTPUT-", "-MAXDISTORTION-", "-NSTEPS-",
               "-PBARLABEL-", "-PBAR-", "-ERROR-"}

----------------------------------------------------------------------------
(* Text: a str is a sequence of one-character strings *)

Digits == {"0", "1", "2", "3", "4", "5", "6", "7", "8", "9"}

\* FilesBrowse writes the chosen paths joined by ";"
RECURSIVE BrowseText(_)
BrowseText(k) ==
    IF k = 0 THEN <<>>
    ELSE IF k = 1 THEN <<"f">>
    ELSE BrowseText(k - 1) \o <<";", "f">>

InputTexts == {BrowseText(k) : k \in 0..MaxFiles}

OutputTexts == {<<>>, <<"o">>}

\* Texts the user leaves in a number field: nothing, a letter, the default
NumberTexts ==
    [k \in {"-MAXDISTORTION-", "-NSTEPS-"} |->
        {<<>>, <<"x">>, IF k = "-MAXDISTORTION-" THEN <<"8", "0">> ELSE <<"2", "0">>}]

\* (variant: only the pieces a separator ends)
RECURSIVE split_ended(_, _)
split_ended(text, piece) ==
    IF text = <<>> THEN <<>>
    ELSE IF Head(text) = ";" THEN <<piece>> \o split_ended(Tail(text), <<>>)
    ELSE split_ended(Tail(text), Append(piece, Head(text)))

\* str.split(";"): the pieces between separators, one more than separators
RECURSIVE split(_, _)
split(text, piece) ==
    IF text = <<>> THEN <<piece>>
    ELSE IF Head(text) = ";" THEN <<piece>> \o split(Tail(text), <<>>)
    ELSE split(Tail(text), Append(piece, Head(text)))

\* int(str) accepts a non-empty run of digits (of the characters modelled)
IntParses(text) == text # <<>> /\ \A i \in 1..Len(text) : text[i] \in Digits

\* the status label, "File #<n>: <label>" or the label verbatim (n = 0)
Label(n, text) == [ordinal |-> n, text |-> text]

NoLabel == Label(0, "")

----------------------------------------------------------------------------
(* Python values in the slots *)

Function(name) == [kind |-> "function", name |-> name]

\* floor(stage_progress / num_files)
floor_div(stage_progress, n) == stage_progress \div n

\* (variant: rounds to the nearest integer instead of flooring)
increment_value_rounded(stage_progress, n, runs_each_file) ==
    IF ~runs_each_file THEN stage_progress
    ELSE (2 * stage_progress + n) \div (2 * n)

\* ProgressUpdater.__init__: the amount one call adds
increment_value(stage_progress, n, runs_each_file) ==
    IF ~runs_each_file THEN stage_progress
    ELSE floor_div(stage_progress, n)

ProgressUpdater(func, stage_progress, n, label, runs_each_file) ==
    IF ~runs_each_file
    THEN [kind |-> "ProgressUpdater", func |-> func, label |-> label,
          increment_value |-> increment_value(stage_progress, n, runs_each_file),
          runs_each_file |-> FALSE]
    ELSE [kind |-> "ProgressUpdater", func |-> func, label |-> label,
          increment_value |-> increment_value(stage_progress, n, runs_each_file),
          runs_each_file |-> TRUE, file_count |-> 1]

\* ProgressUpdater.__get__: functools.partial(self.__call__, instance)
get(self, instance) == [kind |-> "partial", func |-> self, args |-> <<instance>>]

\* Reading the attribute on the class, diffeo.DiffeoImage.<name>: a value
\* whose type defines __get__ is bound with instance None; a function and a
\* functools.partial are returned as they are.
class_getattr(v) == IF v.kind = "ProgressUpdater" THEN get(v, "None") ELSE v

\* inspect.unwrap: follow __wrapped__, which functools.update_wrapper sets
\* on a ProgressUpdater; a function and a functools.partial have none.
RECURSIVE unwrap(_)
unwrap(v) == IF v.kind = "ProgressUpdater" THEN unwrap(v.func) ELSE v

\* Number of ProgressUpdater layers a call of v passes through
RECURSIVE Depth(_)
Depth(v) ==
    CASE v.kind = "function" -> 0
      [] v.kind = "partial" -> Depth(v.func)
      [] v.kind = "ProgressUpdater" -> 1 + Depth(v.func)

\* Calling v with args.  ProgressUpdater.__call__ advances the accumulator,
\* pushes the progress and the label, then calls self.func with the same
\* arguments; a partial prepends its bound arguments.  The result gives the
\* value after the call (file_count advanced), the total advance, the
\* labels pushed in order, and the function and arguments finally reached.
RECURSIVE call(_, _)
call(v, args) ==
    CASE v.kind = "function" ->
            [value |-> v, advance |-> 0, pushed |-> <<>>,
             target |-> v.name, args |-> args]
      [] v.kind = "partial" ->
            LET r == call(v.func, v.args \o args)
            IN  [r EXCEPT !.value = [v EXCEPT !.func = r.value]]
      [] v.kind = "ProgressUpdater" ->
            LET extended_label == IF v.runs_each_file
                                  THEN Label(v.file_count, v.label)
                                  ELSE Label(0, v.label)
                v1 == IF v.runs_each_file
                      THEN [v EXCEPT !.file_count = @ + 1]
                      ELSE v
                r == call(v.func, args)
            IN  [value |-> [v1 EXCEPT !.func = r.value],
                 advance |-> v.increment_value + r.advance,
                 pushed |-> <<extended_label>> \o r.pushed,
                 target |-> r.target, args |-> r.args]

\* obj.<name>(*args) for an instance obj of the class holding v: a function
\* is bound to obj, a ProgressUpdater is bound by __get__, and a
\* functools.partial (no descriptor) is called without obj.  The value of
\* the result is the slot's content after the call.
method_call(v, args) ==
    CASE v.kind = "function" -> call(v, <<"self">> \o args)
      [] v.kind = "ProgressUpdater" ->
            LET r == call(get(v, "self"), args)
            IN  [r EXCEPT !.value = r.value.func]
      [] v.kind = "partial" -> call(v, args)

\* The sum of "ProgressUpdater.current_progress += self.increment_value"
\* over the ProgressUpdater layers one call of v runs through
RECURSIVE increments(_)
increments(v) ==
    CASE v.kind = "function" -> 0
      [] v.kind = "partial" -> increments(v.func)
      [] v.kind = "ProgressUpdater" -> v.increment_value + increments(v.func)

\* (variant: leaves the accumulator as it is)
reset_skipped(progress) == progress

\* ProgressUpdater.reset
reset(progress) == 0

----------------------------------------------------------------------------
(* The window *)

layout ==
    [k \in LayoutKeys |->
        CASE k = "-INPUTS-" -> [value |-> <<>>]
          [] k = "-OUTPUT-" -> [value |-> <<>>]
          [] k = "-MAXDISTORTION-" -> [value |-> <<"8", "0">>]
          [] k = "-NSTEPS-" -> [value |-> <<"2", "0">>]
          [] k = "-PBARLABEL-" -> [value |-> NoLabel, visible |-> FALSE]
          [] k = "-PBAR-" -> [count |-> 0, visible |-> FALSE]
          [] k = "-ERROR-" -> [value |-> ""]]

\* window[key] for a key the layout lacks: PySimpleGUI reports the key and
\* answers, by version, with the element of the closest key or with an
\* ErrorElement whose update does nothing.  It raises KeyError only after
\* set_options(suppress_raise_key_errors=False), which is never called here.
KeyMissOutcomes == {"closest", "ErrorElement"}

\* difflib's closest layout key to "-OUTPUTS-"
closest_key == "-OUTPUT-"

\* window[key].update(value=v)
update_value(w, key, v, miss) ==
    IF key \in LayoutKeys THEN [w EXCEPT ![key].value = v]
    ELSE IF miss = "closest" THEN [w EXCEPT ![closest_key].value = v]
    ELSE w

NoCall == [target |-> "", args |-> <<>>]

NoProbe == [stage_progress |-> 0, num_files |-> 1, runs_each_file |-> TRUE,
            made |-> FALSE, pu |-> Function(""), invocations |-> 0,
            contributed |-> 0]

NoCalls == [s \in Slots |-> 0]

\* No stage call in progress
NoInvocation == [slot |-> "", before |-> 0, pushed |-> <<>>]

\* (variant: __call__ without its window.refresh())
refresh_skipped(w, d) == d

\* window.refresh(): the elements as they stand are painted over what was
\* painted before
refresh(w, d) == w

\* window.read(): back at the head of the loop (position p) the window is
\* painted as it stands; a process that has left the loop paints no more
painted(p, w, d) == IF p = "Idle" THEN w ELSE d

InitProgram ==
    /\ pc = "Idle"
    /\ event = "none"
    /\ window = layout
    /\ diffeo = [a \in Attributes |-> Function(a)]
    /\ current_progress = 0
    /\ num_files = 0
    /\ calls = NoCalls
    /\ executing = NoCall
    /\ exc = "none"
    /\ key_miss = "unknown"
    /\ invocation = NoInvocation
    /\ drawn = layout
    /\ runs = 0
    /\ pre_install = [s \in Slots |-> Function(s)]
    /\ teardowns = 0

Init == InitProgram /\ probe = NoProbe

----------------------------------------------------------------------------
(* The event loop *)

\* event == sg.WIN_CLOSED: break
WinClosed ==
    /\ pc = "Idle"
    /\ pc' = "Closed"
    /\ event' = "WIN_CLOSED"
    /\ UNCHANGED <<window, diffeo, current_progress, num_files, calls,
                   executing, exc, key_miss, runs, pre_install, teardowns,
                   probe, invocation, drawn>>

\* The user replaces the text of a number field; the field raises its event
\* and the handler strips a last character that is no digit.  An empty text
\* has no last character: IndexError leaves the loop.
EditNumber(key, text) ==
    /\ pc = "Idle"
    /\ runs < MaxRuns
    /\ event' = key
    /\ IF text = <<>>
       THEN /\ window' = [window EXCEPT ![key].value = text]
            /\ pc' = "Crashed"
            /\ exc' = "IndexError"
       ELSE /\ window' = [window EXCEPT ![key].value =
                              IF text[Len(text)] \notin Digits
                              THEN SubSeq(text, 1, Len(text) - 1)
                              ELSE text]
            /\ pc' = "Idle"
            /\ exc' = exc
    /\ drawn' = painted(pc', window', drawn)
    /\ UNCHANGED <<diffeo, current_progress, num_files, calls, executing,
                   key_miss, runs, pre_install, teardowns, probe,
                   invocation>>

\* (variant: only the first of the three checks)
precondition_error_first_only(inputs, output) ==
    IF inputs = <<>> /\ output = <<>> THEN ERR_BOTH ELSE ""

\* The precondition checks of the Run handler: the message for the values
\* read, or "" when both are supplied
precondition_error(inputs, output) ==
    IF inputs = <<>> /\ output = <<>> THEN ERR_BOTH
    ELSE IF inputs = <<>> THEN ERR_INPUT
    ELSE IF output = <<>> THEN ERR_OUTPUT
    ELSE ""

\* The fields as the user left them before pressing Run (Input, FilesBrowse
\* and FolderBrowse raise no event of their own)
filled(inputs, output) ==
    [window EXCEPT !["-INPUTS-"].value = inputs, !["-OUTPUT-"].value = output]

\* Run with a missing input or output: the error is shown (its colour is
\* not modelled) and the loop continues
RunRejected(inputs, output) ==
    /\ pc = "Idle"
    /\ runs < MaxRuns
    /\ precondition_error(inputs, output) # ""
    /\ event' = "Run"
    /\ window' = [filled(inputs, output) EXCEPT
                     !["-ERROR-"].value = precondition_error(inputs, output)]
    /\ drawn' = painted(pc, window', drawn)
    /\ UNCHANGED <<pc, diffeo, current_progress, num_files, calls, executing,
                   exc, key_miss, runs, pre_install, teardowns, probe,
                   invocation>>

\* The window after "Clear error" and the progress surface being shown
shown(w) ==
    [w EXCEPT !["-ERROR-"].value = "",
              !["-PBAR-"] = [count |-> 0, visible |-> TRUE],
              !["-PBARLABEL-"].visible = TRUE]

\* Run with both supplied, and a number field int() rejects: ValueError
\* leaves the loop after the progress surface was shown
RunValueError(inputs, output) ==
    /\ pc = "Idle"
    /\ runs < MaxRuns
    /\ precondition_error(inputs, output) = ""
    /\ \/ ~IntParses(window["-MAXDISTORTION-"].value)
       \/ ~IntParses(window["-NSTEPS-"].value)
    /\ event' = "Run"
    /\ window' = shown(filled(inputs, output))
    /\ pc' = "Crashed"
    /\ exc' = "ValueError"
    /\ UNCHANGED <<diffeo, current_progress, num_files, calls, executing,
                   key_miss, runs, pre_install, teardowns, probe,
                   invocation, drawn>>

\* The install: each slot is replaced by a ProgressUpdater around what the
\* class attribute reads as
install(d, n) ==
    [a \in Attributes |->
        IF a \in Slots
        THEN ProgressUpdater(class_getattr(d[a]), stage_progress_of[a], n,
                             label_of[a], runs_each_file_of[a])
        ELSE d[a]]

\* (variant: the Run event is also taken while the handler holds the
\* finished run on screen)
RunInstalled_during_hold(inputs, output) ==
    /\ pc \in {"Idle", "Succeeded"}
    /\ runs < MaxRuns
    /\ precondition_error(inputs, output) = ""
    /\ IntParses(window["-MAXDISTORTION-"].value)
    /\ IntParses(window["-NSTEPS-"].value)
    /\ event' = "Run"
    /\ window' = shown(filled(inputs, output))
    /\ num_files' = Len(split(inputs, <<>>))
    /\ pre_install' = [s \in Slots |-> class_getattr(diffeo[s])]
    /\ IF num_files' = 0
       THEN /\ diffeo' = diffeo
            /\ exc' = "ZeroDivisionError"
            /\ pc' = "Crashed"
       ELSE /\ diffeo' = install(diffeo, num_files')
            /\ exc' = exc
            /\ pc' = "Running"
    /\ calls' = NoCalls
    /\ teardowns' = 0
    /\ runs' = runs + 1
    /\ UNCHANGED <<current_progress, executing, key_miss, probe, invocation,
                   drawn>>

\* Run accepted: progress surface shown, stages wrapped, pipeline entered.
\* With no file the first ProgressUpdater's floor(stage_progress / num_files)
\* raises ZeroDivisionError before any slot is assigned.
RunInstalled(inputs, output) ==
    /\ pc = "Idle"
    /\ runs < MaxRuns
    /\ precondition_error(inputs, output) = ""
    /\ IntParses(window["-MAXDISTORTION-"].value)
    /\ IntParses(window["-NSTEPS-"].value)
    /\ event' = "Run"
    /\ window' = shown(filled(inputs, output))
    /\ num_files' = Len(split(inputs, <<>>))
    /\ pre_install' = [s \in Slots |-> class_getattr(diffeo[s])]
    /\ IF num_files' = 0
       THEN /\ diffeo' = diffeo
            /\ exc' = "ZeroDivisionError"
            /\ pc' = "Crashed"
       ELSE /\ diffeo' = install(diffeo, num_files')
            /\ exc' = exc
            /\ pc' = "Running"
    /\ calls' = NoCalls
    /\ teardowns' = 0
    /\ runs' = runs + 1
    /\ UNCHANGED <<current_progress, executing, key_miss, probe, invocation,
                   drawn>>

----------------------------------------------------------------------------
(* diffeo.run_diffeomorph: an external collaborator.  It invokes the three
   per-file stages once per input file (a file's stage after the stage
   before it) and the save stage once at the end, returns when all are done,
   and may raise at any point. *)

may_invoke(s) ==
    CASE s = INIT -> calls[INIT] < num_files
      [] s = GETDIFFEO -> calls[GETDIFFEO] < calls[INIT]
      [] s = INTERPOLATE -> calls[INTERPOLATE] < calls[GETDIFFEO]
      [] s = SAVE -> calls[SAVE] = 0 /\ calls[INTERPOLATE] = num_files

\* The pipeline invokes stage s on an instance: the call runs through the
\* slot's wrappers (ProgressUpdater.__call__ up to "return self.func(...)")
\* and enters the function they reach.
StageCall(s) ==
    /\ pc = "Running"
    /\ may_invoke(s)
    /\ LET r == method_call(diffeo[s], <<"args">>)
       IN  /\ diffeo' = [diffeo EXCEPT ![s] = r.value]
           /\ current_progress' = current_progress + r.advance
           /\ window' = IF r.pushed = <<>> THEN window
                         ELSE [window EXCEPT
                                 !["-PBAR-"].count = current_progress',
                                 !["-PBARLABEL-"].value = r.pushed[Len(r.pushed)]]
           /\ executing' = [target |-> r.target, args |-> r.args]
           /\ invocation' = [slot |-> s, before |-> current_progress,
                             pushed |-> r.pushed]
           /\ drawn' = IF r.pushed = <<>> THEN drawn
                        ELSE refresh(window', drawn)
    /\ calls' = [calls EXCEPT ![s] = @ + 1]
    /\ pc' = "InStage"
    /\ UNCHANGED <<event, num_files, exc, key_miss, runs, pre_install,
                   teardowns, probe>>

\* The stage function returns to the pipeline
StageReturn ==
    /\ pc = "InStage"
    /\ pc' = "Running"
    /\ executing' = NoCall
    /\ invocation' = NoInvocation
    /\ UNCHANGED <<event, window, diffeo, current_progress, num_files, calls,
                   exc, key_miss, runs, pre_install, teardowns, probe, drawn>>

----------------------------------------------------------------------------
(* The try statement of the Run handler *)

\* (variant: the bar is left at the accumulated value)
completed_not_forced(w) ==
    [w EXCEPT !["-PBARLABEL-"].value = Label(0, COMPLETE)]

\* The two updates of the else clause
completed(w) ==
    [w EXCEPT !["-PBAR-"].count = PBarMax,
              !["-PBARLABEL-"].value = Label(0, COMPLETE)]

\* else: run_diffeomorph returned; the window is refreshed and held for
\* two seconds
PipelineReturns ==
    /\ pc = "Running"
    /\ calls[SAVE] = 1
    /\ window' = completed(window)
    /\ drawn' = refresh(window', drawn)
    /\ pc' = "Succeeded"
    /\ UNCHANGED <<event, diffeo, current_progress, num_files, calls,
                   executing, exc, key_miss, runs, pre_install, teardowns,
                   probe, invocation>>

\* (variant: no except clause for FileNotFoundError)
RaiseFileNotFound_uncaught(miss) ==
    /\ pc \in {"Running", "InStage"}
    /\ key_miss \in {"unknown", miss}
    /\ key_miss' = miss
    /\ executing' = NoCall
    /\ invocation' = NoInvocation
    /\ exc' = "FileNotFoundError"
    /\ pc' = "Unwinding"
    /\ UNCHANGED <<event, window, diffeo, current_progress, num_files, calls,
                   runs, pre_install, teardowns, probe, drawn>>

\* except FileNotFoundError: the handler updates "-INPUTS-", then
\* "-OUTPUTS-" (a key the layout lacks), then "-ERROR-"
RaiseFileNotFound(miss) ==
    /\ pc \in {"Running", "InStage"}
    /\ key_miss \in {"unknown", miss}
    /\ key_miss' = miss
    /\ executing' = NoCall
    /\ LET w1 == update_value(window, "-INPUTS-", <<>>, miss)
           w2 == update_value(w1, "-OUTPUTS-", <<>>, miss)
       IN  window' = update_value(w2, "-ERROR-", ERR_NOT_FOUND, miss)
    /\ pc' = "Failed"
    /\ invocation' = NoInvocation
    /\ UNCHANGED <<event, diffeo, current_progress, num_files, calls, exc,
                   runs, pre_install, teardowns, probe, drawn>>

\* Any other exception: no except clause matches
RaiseOther ==
    /\ pc \in {"Running", "InStage"}
    /\ exc' = "Exception"
    /\ executing' = NoCall
    /\ invocation' = NoInvocation
    /\ pc' = "Unwinding"
    /\ UNCHANGED <<event, window, diffeo, current_progress, num_files, calls,
                   key_miss, runs, pre_install, teardowns, probe, drawn>>

\* The four assignments of the finally block
uninstall(d) ==
    [a \in Attributes |->
        CASE a = INIT -> unwrap(class_getattr(d[DIRINIT]))
          [] a = GETDIFFEO -> unwrap(class_getattr(d[GETDIFFEO]))
          [] a = INTERPOLATE -> unwrap(class_getattr(d[INTERPOLATE]))
          [] a = SAVE -> unwrap(class_getattr(d[SAVE]))
          [] OTHER -> d[a]]

\* (variant: the finally block resets the bar and the label but leaves
\* them visible)
hidden_still_visible(w) ==
    [w EXCEPT !["-PBAR-"].count = 0, !["-PBARLABEL-"].value = NoLabel]

\* The progress surface after the finally block's two updates
hidden(w) ==
    [w EXCEPT !["-PBAR-"] = [count |-> 0, visible |-> FALSE],
              !["-PBARLABEL-"] = [value |-> NoLabel, visible |-> FALSE]]

\* finally: then back to window.read(), or out of the loop with the
\* exception in flight
Teardown ==
    /\ pc \in {"Succeeded", "Failed", "Unwinding"}
    /\ window' = hidden(window)
    /\ diffeo' = uninstall(diffeo)
    /\ current_progress' = reset(current_progress)
    /\ teardowns' = teardowns + 1
    /\ pc' = IF pc = "Unwinding" THEN "Crashed" ELSE "Idle"
    /\ drawn' = painted(pc', window', drawn)
    /\ UNCHANGED <<event, num_files, calls, executing, exc, key_miss, runs,
                   pre_install, probe, invocation>>

----------------------------------------------------------------------------

Next ==
    \/ WinClosed
    \/ \E key \in {"-MAXDISTORTION-", "-NSTEPS-"} :
          \E text \in NumberTexts[key] : EditNumber(key, text)
    \/ \E inputs \in InputTexts, output \in OutputTexts :
          RunRejected(inputs, output)
    \/ \E inputs \in InputTexts, output \in OutputTexts :
          RunValueError(inputs, output)
    \/ \E inputs \in InputTexts, output \in OutputTexts :
          RunInstalled(inputs, output)
    \/ \E s \in Slots : StageCall(s)
    \/ StageReturn
    \/ PipelineReturns
    \/ \E miss \in KeyMissOutcomes : RaiseFileNotFound(miss)
    \/ RaiseOther
    \/ Teardown

Spec == Init /\ [][Next]_vars

\* The Run handler is straight-line code: once the try statement is left
\* (after the two-second hold, or with an exception) the finally block runs.
FairSpec == Spec /\ WF_vars(Teardown)

----------------------------------------------------------------------------
(* A single ProgressUpdater, for every weight and file count: it is built
   by ProgressUpdater.__init__ and then called as often as its stage runs
   (once per file, or once). *)

ProbeInputs ==
    {[NoProbe EXCEPT !.stage_progress = w, !.num_files = n,
                     !.runs_each_file = b] :
        w \in 0..PBarMax, n \in 1..MaxProbeFiles, b \in BOOLEAN}

ProbeInit == InitProgram /\ probe \in ProbeInputs

ProbeConstruct ==
    /\ ~probe.made
    /\ probe' = [probe EXCEPT
                    !.made = TRUE,
                    !.pu = ProgressUpdater(Function("stage"), probe.stage_progress,
                                           probe.num_files, "label",
                                           probe.runs_each_file)]
    /\ UNCHANGED <<pc, event, window, diffeo, current_progress, num_files,
                   calls, executing, exc, key_miss, runs, pre_install,
                   teardowns, invocation, drawn>>

ProbeInvoke ==
    /\ probe.made
    /\ probe.invocations < (IF probe.runs_each_file THEN probe.num_files ELSE 1)
    /\ LET r == method_call(probe.pu, <<"args">>)
       IN  probe' = [probe EXCEPT !.pu = r.value,
                                  !.invocations = @ + 1,
                                  !.contributed = @ + r.advance]
    /\ UNCHANGED <<pc, event, window, diffeo, current_progress, num_files,
                   calls, executing, exc, key_miss, runs, pre_install,
                   teardowns, invocation, drawn>>

ProbeNext == ProbeConstruct \/ ProbeInvoke

IncSpec == ProbeInit /\ [][ProbeNext]_vars

----------------------------------------------------------------------------
(* Properties *)

\* The run handler has been left after a run that entered the pipeline
LeftRun ==
    \/ pc = "Idle" /\ runs > 0
    \/ pc = "Crashed" /\ exc = "Exception"

InRun == pc \in {"Running", "InStage", "Succeeded", "Failed", "Unwinding"}

\* C1: after the teardown of a run, each of the four stage slots holds
\* exactly the function it held before that run's install.
C1_SlotsRestored ==
    (pc = "Idle" /\ runs > 0) => \A s \in Slots : diffeo[s] = pre_install[s]

\* C2: in every Idle state no stage slot holds a ProgressUpdater, directly
\* or through an intermediate callable, and no slot is ever wrapped more
\* than one layer deep.
C2_NeverNested ==
    /\ \A s \in Slots : Depth(diffeo[s]) <= 1
    /\ pc = "Idle" => \A s \in Slots : Depth(diffeo[s]) = 0

\* C3: whenever the event loop is idle (before the first run, after a
\* rejected request, after the teardown of any run) current_progress is 0.
C3_IdleProgressZero == pc = "Idle" => current_progress = 0

\* C3 witness: idle again after a run that had advanced the accumulator and
\* ended on the recovered missing-file path.
C3_Witness ==
    /\ pc = "Idle"
    /\ runs > 0
    /\ calls[INTERPOLATE] > 0
    /\ window["-ERROR-"].value = ERR_NOT_FOUND

\* C4: every exit from the pipeline call runs the teardown exactly once
\* before control leaves the run handler: progress surface hidden and
\* reset, the four slots uninstalled, the accumulator reset.
C4_TeardownOnEveryExit ==
    /\ InRun => teardowns = 0
    /\ LeftRun =>
          /\ teardowns = 1
          /\ window["-PBAR-"] = [count |-> 0, visible |-> FALSE]
          /\ window["-PBARLABEL-"] = [value |-> NoLabel, visible |-> FALSE]
          /\ current_progress = 0
          /\ \A s \in Slots : diffeo[s].kind = "function"

\* C5: a Run request with an empty input list or an empty output target is
\* rejected with its specific message before anything is installed: no
\* slot is replaced, the accumulator stays 0, the progress surface stays
\* hidden, the pipeline is not entered and the loop is idle again.
C5_RejectedBeforeInstall ==
    [][(/\ pc = "Idle"
        /\ event' = "Run"
        /\ \/ window'["-INPUTS-"].value = <<>>
           \/ window'["-OUTPUT-"].value = <<>>)
       => /\ pc' = "Idle"
          /\ diffeo' = diffeo
          /\ current_progress = 0 /\ current_progress' = 0
          /\ ~window'["-PBAR-"].visible /\ ~window'["-PBARLABEL-"].visible
          /\ calls' = calls /\ runs' = runs
          /\ window'["-ERROR-"].value =
                IF window'["-INPUTS-"].value # <<>> THEN ERR_OUTPUT
                ELSE IF window'["-OUTPUT-"].value # <<>> THEN ERR_INPUT
                ELSE ERR_BOTH]_vars

\* C5 witness: after an earlier run, a request with no input and an output
\* folder has been rejected.
C5_Witness ==
    /\ pc = "Idle"
    /\ event = "Run"
    /\ runs > 0
    /\ window["-INPUTS-"].value = <<>>
    /\ window["-OUTPUT-"].value # <<>>
    /\ window["-ERROR-"].value = ERR_INPUT

\* C6: when the pipeline raises FileNotFoundError the handler clears the
\* input field and the output field and shows the files-not-found message
\* before the teardown.
C6_MissingFileRecovered ==
    pc = "Failed" =>
        /\ window["-INPUTS-"].value = <<>>
        /\ window["-OUTPUT-"].value = <<>>
        /\ window["-ERROR-"].value = ERR_NOT_FOUND

\* C7: 0 <= current_progress <= 100 in every state of every run.
C7_AccumulatorBounded == 0 <= current_progress /\ current_progress <= PBarMax

\* C8: for every weight in 0..100 and every N >= 1 a per-file
\* instrumentor's increment is floor(weight / N), N invocations contribute
\* increment * N, which is <= weight with equality iff N divides weight; a
\* per-batch instrumentor's increment is the weight itself, whatever N.
C8_IncrementFloor ==
    probe.made =>
        LET w == probe.stage_progress
            n == probe.num_files
            inc == probe.pu.increment_value
        IN  IF probe.runs_each_file
            THEN /\ inc * n <= w /\ w < (inc + 1) * n
                 /\ probe.contributed = inc * probe.invocations
                 /\ probe.invocations = n =>
                       /\ probe.contributed <= w
                       /\ probe.contributed = w <=> w % n = 0
            ELSE /\ inc = w
                 /\ probe.invocations = 1 => probe.contributed = w

\* C8 witness: a weight of 65 over 3 files has contributed 63 after the
\* third invocation.
C8_Witness ==
    /\ probe.made
    /\ probe.runs_each_file
    /\ probe.stage_progress = InterpolateWeight
    /\ probe.num_files = 3
    /\ probe.invocations = 3
    /\ probe.contributed = 63

\* C9: when the pipeline has returned from a run over N files the
\* accumulator equals N*(floor(5/N) + floor(25/N) + floor(65/N)) + 5 (97
\* for N = 2) and the bar shows 100.
C9_SuccessTotal ==
    pc = "Succeeded" =>
        /\ current_progress =
              num_files * (InitWeight \div num_files
                           + GetdiffeoWeight \div num_files
                           + InterpolateWeight \div num_files) + SaveWeight
        /\ window["-PBAR-"].count = PBarMax

\* C10 as stated: when the pipeline has returned normally the accumulator
\* current_progress is 100 before the teardown begins (already in the first
\* run of a process, where every slot is wrapped once).
C10_AccumulatorForcedToMax ==
    (pc = "Succeeded" /\ runs = 1) => current_progress = PBarMax

\* C10 as amended: when the pipeline returns normally the bar's displayed
\* value is set to 100 before the teardown begins, current_progress keeping
\* its accumulated value; when the pipeline raises, neither the displayed
\* value nor current_progress is changed by the handler before the teardown.
C10_BarForcedOnSuccessOnly ==
    /\ [](pc = "Succeeded" =>
            /\ window["-PBAR-"] = [count |-> PBarMax, visible |-> TRUE]
            /\ teardowns = 0)
    /\ [][(pc = "Running" /\ pc' = "Succeeded")
            => current_progress' = current_progress]_vars
    /\ [][(pc \in {"Running", "InStage"} /\ pc' \in {"Failed", "Unwinding"})
            => (/\ window'["-PBAR-"] = window["-PBAR-"]
                /\ current_progress' = current_progress)]_vars

\* C10 witness: a run over two files has succeeded: the bar shows 100 and
\* the accumulator is 97.
C10_Witness ==
    /\ pc = "Succeeded"
    /\ num_files = 2
    /\ current_progress = 97
    /\ window["-PBAR-"].count = PBarMax

\* C11: the k-th invocation of a per-file stage in a run shows exactly the
\* label "File #k: <label>" (so the ordinals of a stage run 1, 2, ..., k and
\* start again at 1 in the next run), and the save stage shows exactly its
\* label with no ordinal.
C11_OrdinalsCountInvocations ==
    pc = "InStage" =>
        invocation.pushed =
            <<Label(IF runs_each_file_of[invocation.slot]
                    THEN calls[invocation.slot] ELSE 0,
                    label_of[invocation.slot])>>

\* C12: whenever a stage function is executing, the wrappers of this
\* invocation have already advanced the accumulator by their increments,
\* pushed the new progress value to the bar and their label to the label
\* element, and the window has been repainted showing both.
C12_PushedBeforeStageBegins ==
    pc = "InStage" =>
        /\ invocation.pushed # <<>>
        /\ current_progress =
               invocation.before + increments(diffeo[invocation.slot])
        /\ window["-PBAR-"].count = current_progress
        /\ window["-PBARLABEL-"].value =
               invocation.pushed[Len(invocation.pushed)]
        /\ drawn["-PBAR-"] = [count |-> current_progress, visible |-> TRUE]
        /\ drawn["-PBARLABEL-"] = window["-PBARLABEL-"]

\* C12 witness: the interpolate stage of the second of two files is
\* executing in a first run and the painted bar stands at 92.
C12_Witness ==
    /\ pc = "InStage"
    /\ runs = 1
    /\ invocation.slot = INTERPOLATE
    /\ calls[INTERPOLATE] = 2
    /\ executing.target = INTERPOLATE
    /\ drawn["-PBAR-"].count = 92

\* C13: the function a stage invocation finally enters is the original
\* function of the invoked slot, and it receives the instance the method was
\* called on followed by the call's arguments, as a call of the
\* uninstrumented method would.
C13_TransparentCall ==
    pc = "InStage" =>
        executing = [target |-> invocation.slot, args |-> <<"self", "args">>]

\* C14: a run is taken only from the idle loop and enters the pipeline; a
\* run whose pipeline returns or raises FileNotFoundError goes on to
\* Succeeded or Failed and from there only to Idle, and it does get there.
C14_RunReturnsToIdle ==
    /\ [][runs' # runs => (pc = "Idle" /\ pc' = "Running")]_vars
    /\ [][(pc \in {"Running", "InStage"} /\ exc' # "Exception")
             => (pc' \in {"Running", "InStage", "Succeeded", "Failed"})]_vars
    /\ [][(pc \in {"Succeeded", "Failed"}) => (pc' = "Idle")]_vars
    /\ (pc \in {"Succeeded", "Failed"}) ~> (pc = "Idle")

\* C14 witness: two runs were accepted, the second raised
\* FileNotFoundError, and the loop is idle again.
C14_Witness ==
    /\ pc = "Idle"
    /\ runs = 2
    /\ teardowns = 1
    /\ key_miss # "unknown"
    /\ window["-ERROR-"].value = ERR_NOT_FOUND

\* C15: when the pipeline raises an exception other than
\* FileNotFoundError the process ends with that exception, with no error
\* message set and the input and output fields as the user filled them, and
\* by then the finally block has run once, zeroed the accumulator and put
\* back into each stage slot what it held before the install.
C15_OtherFailurePropagates ==
    /\ pc = "Unwinding" => (exc = "Exception" /\ teardowns = 0)
    /\ (pc = "Crashed" /\ exc = "Exception") =>
          /\ window["-ERROR-"].value = ""
          /\ window["-INPUTS-"].value # <<>>
          /\ window["-OUTPUT-"].value # <<>>
          /\ teardowns = 1
          /\ current_progress = 0
          /\ \A s \in Slots : diffeo[s] = pre_install[s]

\* C16: every run that was accepted has num_files >= 1, so no
\* ProgressUpdater is ever built with floor(stage_progress / 0): the
\* install never raises ZeroDivisionError.
C16_ItemCountPositive ==
    /\ exc # "ZeroDivisionError"
    /\ runs > 0 => num_files >= 1
    /\ pc \in {"Running", "InStage"} =>
          \A s \in Slots \ {SAVE} :
              /\ diffeo[s].kind = "ProgressUpdater"
              /\ diffeo[s].increment_value * num_files <= stage_progress_of[s]

\* C16 witness: a run over a single file has just been installed and its
\* per-file ProgressUpdaters carry the whole stage weight.
C16_Witness ==
    /\ pc = "Running"
    /\ calls = NoCalls
    /\ num_files = 1
    /\ window["-INPUTS-"].value = BrowseText(1)
    /\ diffeo[INTERPOLATE].increment_value = InterpolateWeight

\* C17: an event is taken from window.read() only while the loop is idle;
\* a run begins only from Idle, and after an earlier run only once that
\* run's finally block has completed; a stage invocation begins only while
\* no stage function is executing, and one executes only inside a run.
C17_OneRunAtATime ==
    /\ [][event' # event => pc = "Idle"]_vars
    /\ [][runs' # runs =>
             (/\ pc = "Idle"
              /\ executing = NoCall
              /\ runs > 0 => teardowns = 1)]_vars
    /\ [][calls' # calls /\ calls' # NoCalls =>
             (pc = "Running" /\ executing = NoCall /\ teardowns = 0)]_vars
    /\ [](executing # NoCall => (pc = "InStage" /\ teardowns = 0))

\* C17 witness: a second run has begun after the first run's teardown and
\* its first stage function is executing.
C17_Witness ==
    /\ runs = 2
    /\ pc = "InStage"
    /\ teardowns = 0
    /\ calls[INIT] = 1
    /\ calls[GETDIFFEO] = 0

\* C18: whenever the loop is idle (at the start, after a rejected request,
\* after the teardown of any run) the progress bar and its label are
\* hidden, the bar's value is 0 and the label's text is empty, in the
\* elements and as painted; they are visible only in a process that is
\* past the validation of a run request.
C18_ProgressSurfaceHiddenWhenIdle ==
    /\ pc \in {"Idle", "Closed"} =>
          /\ window["-PBAR-"] = [count |-> 0, visible |-> FALSE]
          /\ window["-PBARLABEL-"] = [value |-> NoLabel, visible |-> FALSE]
          /\ drawn["-PBAR-"] = window["-PBAR-"]
          /\ drawn["-PBARLABEL-"] = window["-PBARLABEL-"]
    /\ (window["-PBAR-"].visible \/ window["-PBARLABEL-"].visible) =>
          (InRun \/ (pc = "Crashed" /\ exc = "ValueError"))

\* C18 witness: the loop is idle after a run that completed and a request
\* that was then rejected, and nothing of the progress surface is left.
C18_Witness ==
    /\ pc = "Idle"
    /\ runs = 1
    /\ calls[SAVE] = 1
    /\ teardowns = 1
    /\ window["-ERROR-"].value = ERR_OUTPUT
    /\ ~window["-PBAR-"].visible

====
